---- MODULE Spec2Model ----
(***************************************************************************)
(* Decision-diagram equivalence checking core of QCEC: the generic         *)
(* EquivalenceChecker driver (run / execute / equals), the Lookahead       *)
(* application scheme, and the alternating and simulation checkers.        *)
(*                                                                         *)
(* Circuits act on a two-qubit register.  Every gate of the alphabet is a  *)
(* monomial matrix (a permutation of the four basis states with a phase    *)
(* i^k per column), so products, inverses, canonical normalisation and     *)
(* node counts are computed exactly.                                       *)
(***************************************************************************)
EXTENDS Integers, Sequences, FiniteSets, Bags, TLC

\* Longest circuit 1 / circuit 2 drawn for a checker run.
MaxLen1 == 2
MaxLen2 == 2

\* Longest gate product from which the operands of a bare equals() call are built.
EqLen == 1

\* Largest fidelity / trace threshold (in units of 1/IPUnit) tried for equals().
MaxThreshold == 2

\* Most ancillary qubits a circuit declares on top of its two logical qubits.
MaxAncillae == 1

\* Most consecutive calls of run() on one simulation checker.
MaxRuns == 2

---------------------------------------------------------------------------
(* The DD package: matrices, vectors, canonical handles.                   *)

Dim == 1..4

\* phases are exponents of i
PhAdd(a, b) == (a + b) % 4
PhNeg(a) == (4 - a) % 4

IdentityMatrix == [perm |-> <<1, 2, 3, 4>>, ph |-> <<0, 0, 0, 0>>]

\* basis state b = 2*q1 + q0 + 1
GateNames == {"X", "Z", "S", "CX", "SWAP"}

GateMatrix(g) ==
    CASE g = "X"    -> [perm |-> <<2, 1, 4, 3>>, ph |-> <<0, 0, 0, 0>>]
      [] g = "Z"    -> [perm |-> <<1, 2, 3, 4>>, ph |-> <<0, 2, 0, 2>>]
      [] g = "S"    -> [perm |-> <<1, 2, 3, 4>>, ph |-> <<0, 1, 0, 1>>]
      [] g = "CX"   -> [perm |-> <<1, 2, 4, 3>>, ph |-> <<0, 0, 0, 0>>]
      [] g = "SWAP" -> [perm |-> <<1, 3, 2, 4>>, ph |-> <<0, 0, 0, 0>>]

\* (A * B): column j of B goes to row B.perm[j], which A sends on.
MatMul(A, B) ==
    [perm |-> [j \in Dim |-> A.perm[B.perm[j]]],
     ph   |-> [j \in Dim |-> PhAdd(B.ph[j], A.ph[B.perm[j]])]]

MatConjT(A) ==
    LET src(r) == CHOOSE j \in Dim : A.perm[j] = r
    IN  [perm |-> [r \in Dim |-> src(r)],
         ph   |-> [r \in Dim |-> PhNeg(A.ph[src(r)])]]

MatScale(A, k) == [perm |-> A.perm, ph |-> [j \in Dim |-> PhAdd(A.ph[j], k)]]

\* Top edge weight of the canonical DD: the first non-zero entry met when
\* descending first non-zero edges (edge order 00, 01, 10, 11 on each level).
TopPhase(A) ==
    LET c1 == CHOOSE j \in Dim : A.perm[j] = 1
        c2 == CHOOSE j \in Dim : A.perm[j] = 2
    IN  IF c1 \in {1, 2} THEN A.ph[c1]
        ELSE IF c2 \in {1, 2} THEN A.ph[c2]
        ELSE A.ph[c1]

\* A weight is i^k; d is a deviation below the package's numerical tolerance.
Weight(k, d) == [k |-> k, d |-> d]

\* A matrix handle (node pointer p, top edge weight w).  The node is the
\* normalised matrix; j tags a numerically perturbed copy of the same node
\* (a different pointer whose entries agree within tolerance).
MatrixDD(A, j, d) ==
    LET k == TopPhase(A)
    IN  [p |-> [perm |-> A.perm, ph |-> MatScale(A, PhNeg(k)).ph, j |-> j],
         w |-> Weight(k, d)]

MatrixOf(e) == MatScale([perm |-> e.p.perm, ph |-> e.p.ph], e.w.k)

Max2(a, b) == IF a >= b THEN a ELSE b

makeIdent == MatrixDD(IdentityMatrix, 0, 0)

multiply(a, b) ==
    MatrixDD(MatMul(MatrixOf(a), MatrixOf(b)), Max2(a.p.j, b.p.j), Max2(a.w.d, b.w.d))

conjugateTranspose(a) == MatrixDD(MatConjT(MatrixOf(a)), a.p.j, a.w.d)

\* the ident flag is set on the package's own identity node only
ident(p) == p = makeIdent.p

\* identity structure whose entries deviate by at most tol; the top weight is ignored
isCloseToIdentity(a, tol) ==
    /\ a.p.perm = IdentityMatrix.perm
    /\ a.p.ph = IdentityMatrix.ph
    /\ a.p.j <= tol

approximatelyEquals(w1, w2) == w1.k = w2.k

\* Number of nodes: the terminal, the top node and the distinct level-0 nodes,
\* i.e. the distinct normalised non-zero 2x2 blocks.
Block(A, rb, cb) ==
    [rc \in {<<1, 1>>, <<1, 2>>, <<2, 1>>, <<2, 2>>} |->
        IF A.perm[2 * cb + rc[2]] = 2 * rb + rc[1]
        THEN A.ph[2 * cb + rc[2]] ELSE -1]

BlockOrder == <<(<<1, 1>>), (<<1, 2>>), (<<2, 1>>), (<<2, 2>>)>>

NormBlock(B) ==
    LET first == CHOOSE i \in 1..4 :
                    /\ B[BlockOrder[i]] # -1
                    /\ \A h \in 1..(i - 1) : B[BlockOrder[h]] = -1
        k == B[BlockOrder[first]]
    IN  [rc \in DOMAIN B |-> IF B[rc] = -1 THEN -1 ELSE PhAdd(B[rc], PhNeg(k))]

NonZero(B) == \E rc \in DOMAIN B : B[rc] # -1

size(a) ==
    LET A == MatrixOf(a)
        blocks == {Block(A, rb, cb) : rb \in 0..1, cb \in 0..1}
    IN  2 + Cardinality({NormBlock(B) : B \in {b \in blocks : NonZero(b)}})

\* ---- vectors: a basis state with a phase ----

\* inner products are returned in units of 1/IPUnit
IPUnit == 4

\* largest rounding error (same units) of the package's innerProduct
MaxNoise == 1

makeZeroState == [idx |-> 1, ph |-> 0]

MatVec(A, v) == [idx |-> A.perm[v.idx], ph |-> PhAdd(v.ph, A.ph[v.idx])]

VectorDD(v, j, d) == [p |-> [idx |-> v.idx, j |-> j], w |-> Weight(v.ph, d)]

VectorOf(e) == [idx |-> e.p.idx, ph |-> e.w.k]

\* IPUnit * i^k as (real, imaginary)
PhaseRe(k) == CASE k = 0 -> IPUnit [] k = 2 -> -IPUnit [] OTHER -> 0
PhaseIm(k) == CASE k = 1 -> IPUnit [] k = 3 -> -IPUnit [] OTHER -> 0

\* <e, f> = conj(e) . f, plus the rounding error of this evaluation
innerProduct(e, f, noise) ==
    LET k == PhAdd(f.w.k, PhNeg(e.w.k))
        same == e.p.idx = f.p.idx
    IN  [r |-> (IF same THEN PhaseRe(k) ELSE 0) + noise.r,
         i |-> (IF same THEN PhaseIm(k) ELSE 0) + noise.i]

Abs(a) == IF a < 0 THEN -a ELSE a

NoNoise == [r |-> 0, i |-> 0]

---------------------------------------------------------------------------
(* EquivalenceChecker::equals                                              *)

Verdicts == {"Equivalent", "EquivalentUpToGlobalPhase", "EquivalentUpToPhase",
             "NotEquivalent", "NoInformation", "ProbablyEquivalent"}

\* The verdict, the package calls made on the way (in order) and the
\* operand handed to isCloseToIdentity (none: the empty sequence).
Outcome(v, calls, tested) == [verdict |-> v, calls |-> calls, tested |-> tested]

\* faulty variants of equalsMatrix: closeness never yields Equivalent; f is not
\* conjugate-transposed
equalsMatrixNeverEquivalent(e, f, configuration) ==
    LET g == IF ident(e.p) THEN f
             ELSE IF ident(f.p) THEN e
             ELSE multiply(e, conjugateTranspose(f))
        calls == IF ident(e.p) \/ ident(f.p) THEN <<"isCloseToIdentity">>
                 ELSE <<"conjugateTranspose", "multiply", "isCloseToIdentity">>
    IN  IF isCloseToIdentity(g, configuration.functionality.traceThreshold)
        THEN Outcome("EquivalentUpToGlobalPhase", calls, <<g>>)
        ELSE Outcome("NotEquivalent", calls, <<g>>)

equalsMatrixNoTranspose(e, f, configuration) ==
    LET g == IF ident(e.p) THEN f
             ELSE IF ident(f.p) THEN e
             ELSE multiply(e, f)
        calls == IF ident(e.p) \/ ident(f.p) THEN <<"isCloseToIdentity">>
                 ELSE <<"conjugateTranspose", "multiply", "isCloseToIdentity">>
    IN  IF isCloseToIdentity(g, configuration.functionality.traceThreshold)
        THEN IF ~approximatelyEquals(e.w, f.w)
             THEN Outcome("EquivalentUpToGlobalPhase", calls, <<g>>)
             ELSE Outcome("Equivalent", calls, <<g>>)
        ELSE Outcome("NotEquivalent", calls, <<g>>)

equalsMatrix(e, f, configuration) ==
    LET viaE == ident(e.p)
        viaF == ~viaE /\ ident(f.p)
        g == IF viaE THEN f
             ELSE IF viaF THEN e
             ELSE multiply(e, conjugateTranspose(f))
        calls == IF viaE \/ viaF THEN <<"isCloseToIdentity">>
                 ELSE <<"conjugateTranspose", "multiply", "isCloseToIdentity">>
        isClose == isCloseToIdentity(g, configuration.functionality.traceThreshold)
    IN  IF isClose
        THEN IF ~approximatelyEquals(e.w, f.w)
             THEN Outcome("EquivalentUpToGlobalPhase", calls, <<g>>)
             ELSE Outcome("Equivalent", calls, <<g>>)
        ELSE Outcome("NotEquivalent", calls, <<g>>)

\* faulty variant of equalsVector: the fidelity test comes first
equalsVectorFidelityFirst(e, f, configuration, noise) ==
    LET ip == innerProduct(e, f, noise)
        fidelity == ip.r * ip.r + ip.i * ip.i
        calls == <<"innerProduct">>
    IN  IF Abs(fidelity - IPUnit * IPUnit)
                < configuration.simulation.fidelityThreshold * IPUnit
        THEN Outcome("EquivalentUpToPhase", calls, <<>>)
        ELSE IF Abs(ip.r - IPUnit) < configuration.simulation.fidelityThreshold
        THEN Outcome("Equivalent", calls, <<>>)
        ELSE Outcome("NotEquivalent", calls, <<>>)

equalsVector(e, f, configuration, noise) ==
    LET ip == innerProduct(e, f, noise)
        fidelity == ip.r * ip.r + ip.i * ip.i
        calls == <<"innerProduct">>
    IN  IF Abs(ip.r - IPUnit) < configuration.simulation.fidelityThreshold
        THEN Outcome("Equivalent", calls, <<>>)
        ELSE IF Abs(fidelity - IPUnit * IPUnit)
                    < configuration.simulation.fidelityThreshold * IPUnit
        THEN Outcome("EquivalentUpToPhase", calls, <<>>)
        ELSE Outcome("NotEquivalent", calls, <<>>)

samePointer(e, f) == e.p = f.p

\* faulty variant of equals: the fast path does not look at the weights
equalsIgnoringWeights(DDType, e, f, configuration, noise) ==
    IF samePointer(e, f)
    THEN Outcome("Equivalent", <<>>, <<>>)
    ELSE IF DDType = "MatrixDD"
    THEN equalsMatrix(e, f, configuration)
    ELSE equalsVector(e, f, configuration, noise)

equals(DDType, e, f, configuration, noise) ==
    IF samePointer(e, f)
    THEN IF ~approximatelyEquals(e.w, f.w)
         THEN Outcome("EquivalentUpToGlobalPhase", <<>>, <<>>)
         ELSE Outcome("Equivalent", <<>>, <<>>)
    ELSE IF DDType = "MatrixDD"
    THEN equalsMatrix(e, f, configuration)
    ELSE equalsVector(e, f, configuration, noise)

---------------------------------------------------------------------------
(* TaskManager: a cursor over one circuit.                                 *)

\* a default-constructed handle
NoDD == [p |-> [idx |-> 0, j |-> 0], w |-> Weight(0, 0)]

TaskManager(qc) ==
    [qc |-> qc, it |-> 1, flipped |-> FALSE, swapped |-> FALSE, state |-> NoDD]

finished(t) == t.it > Len(t.qc)

\* the gate under the cursor, on the physical qubits the permutation names
PermutedGate(g, swapped) ==
    IF swapped
    THEN MatMul(GateMatrix("SWAP"), MatMul(GateMatrix(g), GateMatrix("SWAP")))
    ELSE GateMatrix(g)

getDD(t) == MatrixDD(PermutedGate(t.qc[t.it], t.swapped), 0, 0)

getInverseDD(t) == conjugateTranspose(getDD(t))

advanceIterator(t) == [t EXCEPT !.it = @ + 1]

flipDirection(t) == [t EXCEPT !.flipped = ~@]

---------------------------------------------------------------------------
(* The checker's mutable state while a phase runs: both task managers, the *)
(* alternating checker's functionality G, the Lookahead cache, the         *)
(* reference counts the core holds on package nodes, and a record of what  *)
(* was fetched and applied.                                                *)

\* who issued a reference: the Lookahead scheme on a cached operation ("Op"),
\* the scheme or the alternating checker on the functionality ("G"), a task
\* manager's advance() on its running DD ("TM"), the simulation checker
\* through TaskManager::incRef / decRef on a running state ("State")
RefKinds == {"Op", "G", "TM", "State"}

Event(ev, side, idx, gate) == [ev |-> ev, side |-> side, idx |-> idx, gate |-> gate]

incRef(c, e, kind) ==
    [c EXCEPT !.rc = @ (+) SetToBag({e.p}),
              !.cnt[kind].inc = @ + 1]

\* a decrement with no reference outstanding is a contract violation
decRef(c, e, kind) ==
    IF CopiesIn(e.p, c.rc) = 0
    THEN [c EXCEPT !.underflow = TRUE, !.cnt[kind].dec = @ + 1]
    ELSE [c EXCEPT !.rc = @ (-) SetToBag({e.p}), !.cnt[kind].dec = @ + 1]

RECURSIVE applySwapOperations(_, _)
applySwapOperations(c, side) ==
    LET t == c.tm[side]
    IN  IF ~finished(t) /\ t.qc[t.it] = "SWAP"
        THEN applySwapOperations(
                 [c EXCEPT !.tm[side].swapped = ~@,
                           !.tm[side].it = @ + 1,
                           !.log = Append(@, Event("swap", side, t.it, t.qc[t.it]))],
                 side)
        ELSE c

\* one gate onto the running DD: the shared functionality for matrices
\* (from the left, or the inverse from the right once flipped), the task's
\* own state for vectors
applyGate(DDType, c, side) ==
    LET t == c.tm[side]
        ev == Event("apply", side, t.it, t.qc[t.it])
    IN  IF DDType = "MatrixDD"
        THEN LET old == c.G
                 new == IF t.flipped THEN multiply(old, getInverseDD(t))
                                     ELSE multiply(getDD(t), old)
                 c1 == [c EXCEPT !.G = new, !.tm[side].it = @ + 1,
                                 !.log = Append(@, ev)]
             IN  incRef(decRef(c1, old, "G"), new, "G")
        ELSE LET old == t.state
                 new == VectorDD(MatVec(MatrixOf(getDD(t)), VectorOf(old)), 0, 0)
                 c1 == [c EXCEPT !.tm[side].state = new, !.tm[side].it = @ + 1,
                                 !.log = Append(@, ev)]
             IN  incRef(decRef(c1, old, "TM"), new, "TM")

RECURSIVE advance(_, _, _, _)
advance(DDType, c, side, n) ==
    IF n = 0 THEN c
    ELSE IF finished(c.tm[side]) THEN [c EXCEPT !.oob = TRUE]
    ELSE LET c1 == applyGate(DDType, c, side)
         IN  IF n = 1 THEN c1
             ELSE advance(DDType, applySwapOperations(c1, side), side, n - 1)

---------------------------------------------------------------------------
(* LookaheadApplicationScheme::operator()                                  *)

\* a freshly constructed scheme: nothing cached, internalState and package
\* are null pointers
NoCache == [cached1 |-> FALSE, cached2 |-> FALSE, op1 |-> NoDD, op2 |-> NoDD,
            at1 |-> 0, at2 |-> 0, chose |-> 0, exit |-> FALSE,
            internalState |-> FALSE, package |-> FALSE]

setInternalState(la) == [la EXCEPT !.internalState = TRUE]

setPackage(la) == [la EXCEPT !.package = TRUE]

\* lines 10-11: both pointers are set
AssertionsHold(c) == c.la.internalState /\ c.la.package

\* lines 13-25: cache the operation under each cursor
CacheOp1(c) ==
    IF c.la.cached1 THEN c
    ELSE LET t == c.tm[1]
             op == getDD(t)
             c1 == [c EXCEPT !.la.op1 = op, !.la.at1 = t.it, !.la.cached1 = TRUE,
                             !.log = Append(@, Event("fetch", 1, t.it, t.qc[t.it]))]
         IN  incRef(c1, op, "Op")

\* faulty variant: the second operation is fetched anew on every call
CacheOp2Always(c) ==
    LET t == c.tm[2]
        op == getInverseDD(t)
        c1 == [c EXCEPT !.la.op2 = op, !.la.at2 = t.it, !.la.cached2 = TRUE,
                        !.log = Append(@, Event("fetch", 2, t.it, t.qc[t.it]))]
    IN  incRef(c1, op, "Op")

CacheOp2(c) ==
    IF c.la.cached2 THEN c
    ELSE LET t == c.tm[2]
             op == getInverseDD(t)
             c1 == [c EXCEPT !.la.op2 = op, !.la.at2 = t.it, !.la.cached2 = TRUE,
                             !.log = Append(@, Event("fetch", 2, t.it, t.qc[t.it]))]
         IN  incRef(c1, op, "Op")

\* faulty variant: a tie goes to side 2
ChooseFirstStrict(size1, size2) == size1 < size2

\* line 35: side 1 is taken unless it gives the strictly larger diagram
ChooseFirst(size1, size2) == size1 <= size2

\* faulty variant: the superseded functionality keeps its reference
ChooseKeepsSaved(c) ==
    LET saved == c.G
        dd1 == multiply(c.la.op1, saved)
        dd2 == multiply(saved, c.la.op2)
        c1 == IF ChooseFirst(size(dd1), size(dd2))
              THEN decRef([c EXCEPT !.G = dd1, !.la.cached1 = FALSE, !.la.chose = 1,
                              !.log = Append(@, Event("apply", 1, c.la.at1,
                                                      c.tm[1].qc[c.la.at1]))],
                          c.la.op1, "Op")
              ELSE decRef([c EXCEPT !.G = dd2, !.la.cached2 = FALSE, !.la.chose = 2,
                              !.log = Append(@, Event("apply", 2, c.la.at2,
                                                      c.tm[2].qc[c.la.at2]))],
                          c.la.op2, "Op")
    IN  incRef(c1, c1.G, "G")

\* lines 27-48: apply the smaller product, release its operation
Choose(c) ==
    LET saved == c.G
        dd1 == multiply(c.la.op1, saved)
        size1 == size(dd1)
        dd2 == multiply(saved, c.la.op2)
        size2 == size(dd2)
        c1 == IF ChooseFirst(size1, size2)
              THEN decRef([c EXCEPT !.G = dd1, !.la.cached1 = FALSE, !.la.chose = 1,
                              !.log = Append(@, Event("apply", 1, c.la.at1,
                                                      c.tm[1].qc[c.la.at1]))],
                          c.la.op1, "Op")
              ELSE decRef([c EXCEPT !.G = dd2, !.la.cached2 = FALSE, !.la.chose = 2,
                              !.log = Append(@, Event("apply", 2, c.la.at2,
                                                      c.tm[2].qc[c.la.at2]))],
                          c.la.op2, "Op")
    IN  decRef(incRef(c1, c1.G, "G"), saved, "G")

\* lines 53-61 and 69-77: multiply a still cached operation in on exit
FlushOp2(c) ==
    IF ~c.la.cached2 THEN c
    ELSE LET saved == c.G
             c1 == [c EXCEPT !.G = multiply(saved, c.la.op2),
                             !.log = Append(@, Event("apply", 2, c.la.at2,
                                                     c.tm[2].qc[c.la.at2]))]
             c2 == decRef(decRef(incRef(c1, c1.G, "G"), saved, "G"), c.la.op2, "Op")
         IN  [c2 EXCEPT !.la.cached2 = FALSE]

FlushOp1(c) ==
    IF ~c.la.cached1 THEN c
    ELSE LET saved == c.G
             c1 == [c EXCEPT !.G = multiply(c.la.op1, saved),
                             !.log = Append(@, Event("apply", 1, c.la.at1,
                                                     c.tm[1].qc[c.la.at1]))]
             c2 == decRef(decRef(incRef(c1, c1.G, "G"), saved, "G"), c.la.op1, "Op")
         IN  [c2 EXCEPT !.la.cached1 = FALSE]

\* faulty variant: the chosen side's cursor stays where it is
ExitOrStay(c) ==
    IF c.la.chose = 1
    THEN IF finished(c.tm[1])
         THEN [FlushOp2(c) EXCEPT !.la.exit = TRUE]
         ELSE c
    ELSE IF finished(c.tm[2])
         THEN [FlushOp1(c) EXCEPT !.la.exit = TRUE]
         ELSE c

\* lines 50-82: on the chosen side, either handle the exit or move the cursor
ExitOrAdvance(c) ==
    IF c.la.chose = 1
    THEN IF finished(c.tm[1])
         THEN [FlushOp2(c) EXCEPT !.la.exit = TRUE]
         ELSE [c EXCEPT !.tm[1] = advanceIterator(@)]
    ELSE IF finished(c.tm[2])
         THEN [FlushOp1(c) EXCEPT !.la.exit = TRUE]
         ELSE [c EXCEPT !.tm[2] = advanceIterator(@)]

Applied(c, apply1, apply2) == [c |-> c, apply1 |-> apply1, apply2 |-> apply2]

\* faulty variant: the scheme also asks the driver to advance both tasks
LookaheadAlsoAdvances(c) ==
    LET c0 == [c EXCEPT !.la.exit = FALSE, !.ncalls = @ + 1]
    IN  Applied(ExitOrAdvance(Choose(CacheOp2(CacheOp1(c0)))), 1, 1)

\* the call with assertions compiled in: a failed assertion ends the call
\* (and the process) before anything is touched
LookaheadApplicationScheme(c) ==
    LET c0 == [c EXCEPT !.la.exit = FALSE, !.ncalls = @ + 1]
    IN  IF ~AssertionsHold(c) THEN Applied(c, 0, 0)
        ELSE Applied(ExitOrAdvance(Choose(CacheOp2(CacheOp1(c0)))), 0, 0)

\* the call with assertions compiled out (NDEBUG) and a null pointer: the
\* statements run up to the first dereference of the null pointer, which is
\* package->incRef(op1) in line 16 or *internalState in line 28
LookaheadWithoutAssertions(c) ==
    LET c0 == [c EXCEPT !.la.exit = FALSE, !.ncalls = @ + 1]
        t == c0.tm[1]
    IN  IF ~c0.la.package
        THEN IF c0.la.cached1 THEN c0
             ELSE [c0 EXCEPT !.la.op1 = getDD(t), !.la.at1 = t.it,
                             !.log = Append(@, Event("fetch", 1, t.it, t.qc[t.it]))]
        ELSE CacheOp2(CacheOp1(c0))

OneToOneApplicationScheme(c) == Applied([c EXCEPT !.ncalls = @ + 1], 1, 1)

applicationScheme(scheme, c) ==
    IF scheme = "Lookahead" THEN LookaheadApplicationScheme(c)
    ELSE OneToOneApplicationScheme(c)

---------------------------------------------------------------------------
(* EquivalenceChecker::execute, one pass through the loop body             *)

\* faulty variant: a dropped negation on the second task
LoopConditionSecondFinished(c) == ~finished(c.tm[1]) /\ finished(c.tm[2])

LoopCondition(c) == ~finished(c.tm[1]) /\ ~finished(c.tm[2])

ExecuteBody(DDType, scheme, c) ==
    LET c1 == applySwapOperations(applySwapOperations(c, 1), 2)
    IN  IF ~finished(c1.tm[1]) /\ ~finished(c1.tm[2])
        THEN LET r == applicationScheme(scheme, c1)
             IN  advance(DDType, advance(DDType, r.c, 1, r.apply1), 2, r.apply2)
        ELSE c1

---------------------------------------------------------------------------
(* The checker as a state machine.                                         *)

VARIABLES
    qc1, qc2,            \* the two circuits handed to the constructor
    DDType,              \* "MatrixDD" (alternating) or "VectorDD" (simulation)
    configuration,
    checker,             \* the class constructed
    qubits,              \* qubit counts of qc1 and qc2: logical and ancillary
    nqubits,             \* the checker's nqubits member
    schemeInstalled,     \* kind of the applicationScheme object, "none" if null
    error,               \* how construction or a scheme call failed, "none" if not
    taskManager1, taskManager2,
    functionality,       \* DDAlternatingChecker's running matrix
    initialState,        \* DDSimulationChecker's initial state
    lookahead,           \* the Lookahead scheme's cache
    refs,                \* bag of package nodes: references the core holds
    counts,              \* incRef / decRef calls issued, by kind of handle
    log,                 \* gates fetched, applied and SWAPs consumed, in order
    ncalls,              \* invocations of the application scheme
    oob,                 \* a gate was requested past the end of a circuit
    underflow,           \* a decRef was issued with no reference outstanding
    pc,                  \* phase of run()
    done,                \* the manager's shared cancellation flag
    equivalence,         \* verdict of the current run
    recorded,            \* maxActiveNodes and runtime have been stored
    runs,                \* completed calls of run()
    eq                   \* a bare call of equals(): operands and outcome

vars == <<qc1, qc2, DDType, configuration, checker, qubits, nqubits,
          schemeInstalled, error, taskManager1, taskManager2,
          functionality, initialState, lookahead, refs, counts, log, ncalls,
          oob, underflow, pc, done, equivalence, recorded, runs, eq>>

\* the constructor's arguments and what it fixes
inputVars == <<qc1, qc2, DDType, configuration, checker, qubits, nqubits,
               schemeInstalled, error>>

coreVars == <<taskManager1, taskManager2, functionality, lookahead, refs,
              counts, log, ncalls, oob, underflow>>

Circuits(n) == UNION {[1..k -> GateNames] : k \in 0..n}

Configuration(scheme, trace, fidelity) ==
    [application   |-> [scheme |-> scheme],
     functionality |-> [traceThreshold |-> trace],
     simulation    |-> [fidelityThreshold |-> fidelity]]

NoCounts == [k \in RefKinds |-> [inc |-> 0, dec |-> 0]]

Ctx == [tm |-> <<taskManager1, taskManager2>>, G |-> functionality,
        la |-> lookahead, rc |-> refs, cnt |-> counts, log |-> log,
        ncalls |-> ncalls, oob |-> oob, underflow |-> underflow]

Store(c) ==
    /\ taskManager1' = c.tm[1]
    /\ taskManager2' = c.tm[2]
    /\ functionality' = c.G
    /\ lookahead' = c.la
    /\ refs' = c.rc
    /\ counts' = c.cnt
    /\ log' = c.log
    /\ ncalls' = c.ncalls
    /\ oob' = c.oob
    /\ underflow' = c.underflow

NoEquals == [DDType |-> "none"]

\* qc.getNqubits() counts the ancillary qubits, getNqubitsWithoutAncillae() does not
Register(nancillae) == [nqubits |-> 2, nancillae |-> nancillae]

getNqubits(q) == q.nqubits + q.nancillae

getNqubitsWithoutAncillae(q) == q.nqubits

\* EquivalenceChecker::EquivalenceChecker, line 15
ConstructedNqubits(q) == Max2(getNqubits(q[1]), getNqubits(q[2]))

\* the applicationScheme member: the kind of scheme object it points to and
\* the profile location or cost function that object was constructed with
SchemeObject(kind, arg) == [kind |-> kind, arg |-> arg]

NoScheme == SchemeObject("none", "none")

\* EquivalenceChecker::EquivalenceChecker, lines 17-18: the circuit each
\* task manager is constructed over
TaskManager1Circuit(c1, c2) == c1
TaskManager2Circuit(c1, c2) == c1

\* DDAlternatingChecker::DDAlternatingChecker
AlternatingInit(c1, c2, scheme) ==
    /\ qc1 = c1
    /\ qc2 = c2
    /\ DDType = "MatrixDD"
    /\ configuration = Configuration(scheme, 1, 1)
    /\ checker = "DDAlternatingChecker"
    /\ qubits = <<Register(0), Register(0)>>
    /\ nqubits = ConstructedNqubits(qubits)
    /\ schemeInstalled = SchemeObject(scheme, "none")
    /\ error = "none"
    /\ taskManager1 = TaskManager(TaskManager1Circuit(c1, c2))
    /\ taskManager2 = flipDirection(TaskManager(TaskManager2Circuit(c1, c2)))
    /\ functionality = NoDD
    /\ initialState = NoDD
    /\ lookahead = IF scheme = "Lookahead"
                   THEN setPackage(setInternalState(NoCache))
                   ELSE NoCache
    /\ refs = EmptyBag
    /\ counts = NoCounts
    /\ log = <<>>
    /\ ncalls = 0
    /\ oob = FALSE
    /\ underflow = FALSE
    /\ pc = "idle"
    /\ done = FALSE
    /\ equivalence = "NoInformation"
    /\ recorded = FALSE
    /\ runs = 0
    /\ eq = NoEquals

Init ==
    \E c1 \in Circuits(MaxLen1), c2 \in Circuits(MaxLen2),
       scheme \in {"OneToOne", "Lookahead"} :
        AlternatingInit(c1, c2, scheme)

\* the manager sets the shared flag when another checker has finished
Cancel ==
    /\ ~done
    /\ pc # "returned"
    /\ done' = TRUE
    /\ UNCHANGED <<inputVars, coreVars, initialState, pc, equivalence, recorded,
                   runs, eq>>

\* faulty variant: the flag is never looked at
isDoneIgnored == FALSE

\* faulty variant of Record: the results are stored in place of the check
RecordWithoutVerdict ==
    /\ pc = "check"
    /\ recorded' = TRUE
    /\ pc' = "returned"
    /\ runs' = runs + 1
    /\ UNCHANGED <<inputVars, coreVars, initialState, done, equivalence, eq>>

isDone == done

\* DDAlternatingChecker::initialize: functionality = identity, incRef
AlternatingInitialize(c) == incRef([c EXCEPT !.G = makeIdent], makeIdent, "G")

Initialize ==
    /\ pc = "idle"
    /\ DDType = "MatrixDD"
    /\ Store(AlternatingInitialize(Ctx))
    /\ pc' = "execute"
    /\ UNCHANGED <<inputVars, initialState, done, equivalence, recorded, runs, eq>>

Execute ==
    /\ pc = "execute"
    /\ ~isDone
    /\ LoopCondition(Ctx)
    /\ Store(ExecuteBody(DDType, configuration.application.scheme, Ctx))
    /\ UNCHANGED <<inputVars, initialState, pc, done, equivalence, recorded, runs, eq>>

ExecuteExit ==
    /\ pc = "execute"
    /\ ~isDone
    /\ ~LoopCondition(Ctx)
    /\ pc' = "finish"
    /\ UNCHANGED <<inputVars, coreVars, initialState, done, equivalence, recorded,
                   runs, eq>>

ExecuteCancelled ==
    /\ pc = "execute"
    /\ isDone
    /\ equivalence' = "NoInformation"
    /\ pc' = "returned"
    /\ runs' = runs + 1
    /\ UNCHANGED <<inputVars, coreVars, initialState, done, recorded, eq>>

\* TaskManager::finish on both tasks
finish(c) == applySwapOperations(applySwapOperations(c, 1), 2)

Finish ==
    /\ pc = "finish"
    /\ Store(finish(Ctx))
    /\ pc' = "postprocess"
    /\ UNCHANGED <<inputVars, initialState, done, equivalence, recorded, runs, eq>>

\* TaskManager::changePermutation on the shared functionality: undo the
\* tracked permutation on the side the task multiplies from
changePermutation(c, side) ==
    LET t == c.tm[side]
        sw == MatrixDD(GateMatrix("SWAP"), 0, 0)
        old == c.G
        new == IF t.flipped THEN multiply(old, sw) ELSE multiply(sw, old)
    IN  IF ~t.swapped THEN c
        ELSE incRef(decRef([c EXCEPT !.G = new, !.tm[side].swapped = FALSE],
                           old, "G"), new, "G")

\* no ancillary and no garbage qubits: reduceAncillae / reduceGarbage keep the DD
postprocessTask(c, side) == changePermutation(c, side)

postprocess(c) == postprocessTask(postprocessTask(c, 1), 2)

Postprocess ==
    /\ pc = "postprocess"
    /\ Store(postprocess(Ctx))
    /\ pc' = "check"
    /\ UNCHANGED <<inputVars, initialState, done, equivalence, recorded, runs, eq>>

\* DDAlternatingChecker::checkEquivalence: is the functionality the identity?
AlternatingCheckEquivalence(c, conf) ==
    equals("MatrixDD", c.G, makeIdent, conf, NoNoise).verdict

CheckEquivalence ==
    /\ pc = "check"
    /\ equivalence' = AlternatingCheckEquivalence(Ctx, configuration)
    /\ pc' = "record"
    /\ UNCHANGED <<inputVars, coreVars, initialState, done, recorded, runs, eq>>

Record ==
    /\ pc = "record"
    /\ recorded' = TRUE
    /\ pc' = "returned"
    /\ runs' = runs + 1
    /\ UNCHANGED <<inputVars, coreVars, initialState, done, equivalence, eq>>

Next ==
    \/ Cancel
    \/ Initialize
    \/ Execute
    \/ ExecuteExit
    \/ ExecuteCancelled
    \/ Finish
    \/ Postprocess
    \/ CheckEquivalence
    \/ Record

Spec == Init /\ [][Next]_vars

---------------------------------------------------------------------------
(* equals() on its own: operands drawn from the handles the package can    *)
(* hold, including numerically perturbed copies of a node.                 *)

EqGates == {"X", "S", "CX"}

RECURSIVE Products(_)
Products(n) ==
    IF n = 0 THEN {IdentityMatrix}
    ELSE Products(n - 1) \cup
         {MatMul(GateMatrix(g), M) : g \in EqGates, M \in Products(n - 1)}

Deviations == 0..MaxThreshold

MatrixOperands(ds) ==
    {MatrixDD(MatScale(M, k), j, d) :
        M \in Products(EqLen), k \in 0..3, j \in Deviations, d \in ds}

VectorOperands(ds) ==
    {VectorDD(MatVec(MatScale(M, k), makeZeroState), j, d) :
        M \in Products(EqLen), k \in 0..3, j \in Deviations, d \in ds}

Noises == [r : -MaxNoise..MaxNoise, i : -MaxNoise..MaxNoise]

IdleChecker ==
    /\ qc1 = <<>>
    /\ qc2 = <<>>
    /\ DDType = "none"
    /\ configuration = Configuration("OneToOne", 1, 1)
    /\ checker = "EquivalenceChecker"
    /\ qubits = <<Register(0), Register(0)>>
    /\ nqubits = ConstructedNqubits(qubits)
    /\ schemeInstalled = SchemeObject("OneToOne", "none")
    /\ error = "none"
    /\ taskManager1 = TaskManager(<<>>)
    /\ taskManager2 = TaskManager(<<>>)
    /\ functionality = NoDD
    /\ initialState = NoDD
    /\ lookahead = NoCache
    /\ refs = EmptyBag
    /\ counts = NoCounts
    /\ log = <<>>
    /\ ncalls = 0
    /\ oob = FALSE
    /\ underflow = FALSE
    /\ pc = "equals"
    /\ done = FALSE
    /\ equivalence = "NoInformation"
    /\ recorded = FALSE
    /\ runs = 0

EqualsInit ==
    /\ IdleChecker
    /\ \/ \E e \in MatrixOperands({0, 1}), f \in MatrixOperands({0}),
             t \in 0..MaxThreshold :
              eq = [DDType |-> "MatrixDD", e |-> e, f |-> f,
                    configuration |-> Configuration("OneToOne", t, 1),
                    noise |-> NoNoise, called |-> FALSE]
       \/ \E e \in VectorOperands({0, 1}), f \in VectorOperands({0}),
             t \in 1..MaxThreshold, n \in Noises :
              eq = [DDType |-> "VectorDD", e |-> e, f |-> f,
                    configuration |-> Configuration("OneToOne", 1, t),
                    noise |-> n, called |-> FALSE]

EqualsCall ==
    /\ pc = "equals"
    /\ ~eq.called
    /\ eq' = [eq EXCEPT !.called = TRUE] @@
             [out |-> equals(eq.DDType, eq.e, eq.f, eq.configuration, eq.noise)]
    /\ UNCHANGED <<inputVars, coreVars, initialState, pc, done, equivalence,
                   recorded, runs>>

EqualsNext == EqualsCall

SpecEquals == EqualsInit /\ [][EqualsNext]_vars

---------------------------------------------------------------------------
(* Construction of a checker, the wiring of a Lookahead scheme, and the    *)
(* first pass through the loop of execute().                               *)

SchemeTypes == {"OneToOne", "Proportional", "Lookahead", "GateCost"}

Checkers == {<<"EquivalenceChecker", "MatrixDD">>, <<"EquivalenceChecker", "VectorDD">>,
             <<"DDAlternatingChecker", "MatrixDD">>,
             <<"DDSimulationChecker", "VectorDD">>}

ApplicationConfiguration(scheme, useProfile) ==
    [Configuration(scheme, 1, 1) EXCEPT
        !.application = [scheme |-> scheme, useProfile |-> useProfile,
                         profileLocation |-> "profile", costFunction |-> "cost"]]

\* line 19 moves the constructor's parameter into the member; lines 35-38
\* read the parameter afterwards: the flag is copied by the move, the string
\* and the function object are left valid but unspecified
MovedFrom(conf) ==
    {[conf EXCEPT !.application.profileLocation = l,
                  !.application.costFunction = f] :
        l \in {conf.application.profileLocation, "empty"},
        f \in {conf.application.costFunction, "empty"}}

\* faulty variant: Lookahead is installed whatever the diagram type
ApplicationSchemeAnyType(ddType, member, parameter) ==
    CASE member.application.scheme = "GateCost" ->
             [scheme |-> SchemeObject("GateCost",
                             IF parameter.application.useProfile
                             THEN parameter.application.profileLocation
                             ELSE parameter.application.costFunction),
              error |-> "none"]
      [] OTHER ->
             [scheme |-> SchemeObject(member.application.scheme, "none"),
              error |-> "none"]

\* lines 20-41: the scheme installed, or the exception thrown; member is
\* this->configuration, parameter the moved-from constructor argument
ApplicationSchemeFor(ddType, member, parameter) ==
    CASE member.application.scheme = "OneToOne" ->
             [scheme |-> SchemeObject("OneToOne", "none"), error |-> "none"]
      [] member.application.scheme = "Proportional" ->
             [scheme |-> SchemeObject("Proportional", "none"), error |-> "none"]
      [] member.application.scheme = "Lookahead" ->
             IF ddType = "MatrixDD"
             THEN [scheme |-> SchemeObject("Lookahead", "none"), error |-> "none"]
             ELSE [scheme |-> NoScheme, error |-> "runtime_error"]
      [] member.application.scheme = "GateCost" ->
             [scheme |-> SchemeObject("GateCost",
                             IF parameter.application.useProfile
                             THEN parameter.application.profileLocation
                             ELSE parameter.application.costFunction),
              error |-> "none"]

ConstructInit ==
    \E c1 \in Circuits(EqLen), c2 \in Circuits(EqLen), k \in Checkers,
       scheme \in SchemeTypes, useProfile \in BOOLEAN :
        /\ qc1 = c1
        /\ qc2 = c2
        /\ checker = k[1]
        /\ DDType = k[2]
        /\ configuration = ApplicationConfiguration(scheme, useProfile)
        /\ qubits = <<Register(0), Register(0)>>
        /\ nqubits = 0
        /\ schemeInstalled = NoScheme
        /\ error = "none"
        /\ taskManager1 = TaskManager(<<>>)
        /\ taskManager2 = TaskManager(<<>>)
        /\ functionality = NoDD
        /\ initialState = NoDD
        /\ lookahead = NoCache
        /\ refs = EmptyBag
        /\ counts = NoCounts
        /\ log = <<>>
        /\ ncalls = 0
        /\ oob = FALSE
        /\ underflow = FALSE
        /\ pc = "new"
        /\ done = FALSE
        /\ equivalence = "NoInformation"
        /\ recorded = FALSE
        /\ runs = 0
        /\ eq = NoEquals

\* EquivalenceChecker::EquivalenceChecker
Construct ==
    /\ pc = "new"
    /\ nqubits' = ConstructedNqubits(qubits)
    /\ taskManager1' = TaskManager(TaskManager1Circuit(qc1, qc2))
    /\ taskManager2' = TaskManager(TaskManager2Circuit(qc1, qc2))
    /\ \E parameter \in MovedFrom(configuration) :
          LET made == ApplicationSchemeFor(DDType, configuration, parameter)
          IN  /\ schemeInstalled' = made.scheme
              /\ error' = made.error
              /\ pc' = IF made.error = "none" THEN "base" ELSE "threw"
    /\ UNCHANGED <<qc1, qc2, DDType, configuration, checker, qubits,
                   functionality, initialState, lookahead, refs, counts, log,
                   ncalls, oob, underflow, done, equivalence, recorded, runs, eq>>

\* the body of the derived class's constructor: DDAlternatingChecker flips
\* the second task and wires a Lookahead scheme, DDSimulationChecker makes
\* the zero state
ConstructDerived ==
    /\ pc = "base"
    /\ taskManager2' = IF checker = "DDAlternatingChecker"
                       THEN flipDirection(taskManager2) ELSE taskManager2
    /\ lookahead' = IF checker = "DDAlternatingChecker"
                         /\ schemeInstalled.kind = "Lookahead"
                    THEN setPackage(setInternalState(lookahead)) ELSE lookahead
    /\ initialState' = IF checker = "DDSimulationChecker"
                       THEN VectorDD(makeZeroState, 0, 0) ELSE initialState
    /\ pc' = "idle"
    /\ UNCHANGED <<inputVars, taskManager1, functionality, refs, counts, log,
                   ncalls, oob, underflow, done, equivalence, recorded, runs, eq>>

\* the scheme's public setters, called by whoever holds the scheme
SetInternalState ==
    /\ pc = "idle"
    /\ schemeInstalled.kind = "Lookahead"
    /\ ~lookahead.internalState
    /\ lookahead' = setInternalState(lookahead)
    /\ UNCHANGED <<inputVars, taskManager1, taskManager2, functionality,
                   initialState, refs, counts, log, ncalls, oob, underflow, pc,
                   done, equivalence, recorded, runs, eq>>

SetPackage ==
    /\ pc = "idle"
    /\ schemeInstalled.kind = "Lookahead"
    /\ ~lookahead.package
    /\ lookahead' = setPackage(lookahead)
    /\ UNCHANGED <<inputVars, taskManager1, taskManager2, functionality,
                   initialState, refs, counts, log, ncalls, oob, underflow, pc,
                   done, equivalence, recorded, runs, eq>>

\* the first pass through the loop of execute() with a Lookahead scheme.
\* With a null pointer in the scheme the call is undefined unless the
\* assertions are compiled in: it either stops at the failed assertion or
\* runs into the null pointer.
FirstCall ==
    /\ pc \in {"idle", "execute"}
    /\ schemeInstalled.kind = "Lookahead"
    /\ ncalls = 0
    /\ LoopCondition(Ctx)
    /\ LET c1 == applySwapOperations(applySwapOperations(Ctx, 1), 2)
       IN  /\ LoopCondition(c1)
           /\ IF AssertionsHold(c1)
              THEN /\ pc = "execute"
                   /\ Store(ExecuteBody(DDType, "Lookahead", Ctx))
                   /\ pc' = "called"
                   /\ error' = error
              ELSE /\ pc' = "aborted"
                   /\ \/ /\ Store(LookaheadApplicationScheme(c1).c)
                         /\ error' = "UninitializedScheme"
                      \/ /\ Store(LookaheadWithoutAssertions(c1))
                         /\ error' = "NullDereference"
    /\ UNCHANGED <<qc1, qc2, DDType, configuration, checker, qubits, nqubits,
                   schemeInstalled, initialState, done, equivalence, recorded,
                   runs, eq>>

ConstructNext ==
    \/ Construct
    \/ ConstructDerived
    \/ SetInternalState
    \/ SetPackage
    \/ Initialize
    \/ FirstCall

SpecConstruct == ConstructInit /\ [][ConstructNext]_vars

---------------------------------------------------------------------------
(* DDSimulationChecker: run() after run() on one checker, with a new       *)
(* initial state in between.                                               *)

\* what StateGenerator::generateRandomState may return: a computational
\* basis state
RandomStates == {VectorDD([idx |-> i, ph |-> 0], 0, 0) : i \in Dim}

SimulationInit ==
    \E c1 \in Circuits(EqLen), c2 \in Circuits(EqLen),
       a1 \in 0..MaxAncillae, a2 \in 0..MaxAncillae :
        /\ qc1 = c1
        /\ qc2 = c2
        /\ checker = "DDSimulationChecker"
        /\ DDType = "VectorDD"
        /\ configuration = Configuration("OneToOne", 1, 1)
        /\ qubits = <<Register(a1), Register(a2)>>
        /\ nqubits = ConstructedNqubits(qubits)
        /\ schemeInstalled = SchemeObject("OneToOne", "none")
        /\ error = "none"
        /\ taskManager1 = TaskManager(TaskManager1Circuit(c1, c2))
        /\ taskManager2 = TaskManager(TaskManager2Circuit(c1, c2))
        /\ functionality = NoDD
        /\ initialState = VectorDD(makeZeroState, 0, 0)
        /\ lookahead = NoCache
        /\ refs = EmptyBag
        /\ counts = NoCounts
        /\ log = <<>>
        /\ ncalls = 0
        /\ oob = FALSE
        /\ underflow = FALSE
        /\ pc = "idle"
        /\ done = FALSE
        /\ equivalence = "NoInformation"
        /\ recorded = FALSE
        /\ runs = 0
        /\ eq = NoEquals

\* DDSimulationChecker::initializeTask
initializeTask(c, side, state) ==
    LET c1 == [c EXCEPT !.tm[side].state = state]
    IN  incRef(c1, c1.tm[side].state, "State")

\* EquivalenceChecker::initialize
initialize(c, state) == initializeTask(initializeTask(c, 1, state), 2, state)

SimulationInitialize ==
    /\ pc = "idle"
    /\ DDType = "VectorDD"
    /\ Store(initialize(Ctx, initialState))
    /\ pc' = "execute"
    /\ UNCHANGED <<inputVars, initialState, done, equivalence, recorded, runs, eq>>

\* TaskManager::changePermutation on the task's own state
changePermutationOfState(c, side) ==
    LET t == c.tm[side]
        old == t.state
        new == VectorDD(MatVec(GateMatrix("SWAP"), VectorOf(old)), old.p.j, old.w.d)
    IN  IF ~t.swapped THEN c
        ELSE incRef(decRef([c EXCEPT !.tm[side].state = new,
                                     !.tm[side].swapped = FALSE],
                           old, "TM"), new, "TM")

\* reduceAncillae has no effect on vectors; there are no garbage qubits
postprocessTaskOfState(c, side) == changePermutationOfState(c, side)

postprocessStates(c) == postprocessTaskOfState(postprocessTaskOfState(c, 1), 2)

SimulationPostprocess ==
    /\ pc = "postprocess"
    /\ DDType = "VectorDD"
    /\ Store(postprocessStates(Ctx))
    /\ pc' = "check"
    /\ UNCHANGED <<inputVars, initialState, done, equivalence, recorded, runs, eq>>

\* EquivalenceChecker::checkEquivalence
checkEquivalence(c, conf) ==
    equals("VectorDD", c.tm[1].state, c.tm[2].state, conf, NoNoise).verdict

\* faulty variant: only the first task's state is released
decRefFirstOnly(c) == decRef(c, c.tm[1].state, "State")

\* DDSimulationChecker::checkEquivalence, lines 26-27
decRefBoth(c) == decRef(decRef(c, c.tm[1].state, "State"), c.tm[2].state, "State")

SimulationCheckEquivalence ==
    /\ pc = "check"
    /\ DDType = "VectorDD"
    /\ equivalence' = checkEquivalence(Ctx, configuration)
    /\ Store(decRefBoth(Ctx))
    /\ pc' = "record"
    /\ UNCHANGED <<inputVars, initialState, done, recorded, runs, eq>>

\* run() is called again on the same checker
Rerun ==
    /\ pc = "returned"
    /\ runs < MaxRuns
    /\ pc' = "idle"
    /\ recorded' = FALSE
    /\ UNCHANGED <<inputVars, coreVars, initialState, done, equivalence, runs, eq>>

\* DDSimulationChecker::setRandomInitialState, between two runs
SetRandomInitialState ==
    /\ pc \in {"idle", "returned"}
    /\ nqubits' = getNqubitsWithoutAncillae(qubits[1])
    /\ initialState' \in RandomStates
    /\ UNCHANGED <<qc1, qc2, DDType, configuration, checker, qubits,
                   schemeInstalled, error, coreVars, pc, done, equivalence,
                   recorded, runs, eq>>

SimulationNext ==
    \/ SimulationInitialize
    \/ Execute
    \/ ExecuteExit
    \/ Finish
    \/ SimulationPostprocess
    \/ SimulationCheckEquivalence
    \/ Record
    \/ Rerun
    \/ SetRandomInitialState

SpecSimulation == SimulationInit /\ [][SimulationNext]_vars

---------------------------------------------------------------------------
(* Properties.                                                             *)

Scheme == configuration.application.scheme

\* run() went through checkEquivalence and returned its verdict
ReturnedVerdict == pc = "returned" /\ recorded

Applies(l) == SelectSeq(l, LAMBDA e : e.ev = "apply")

GateEvents(l) == SelectSeq(l, LAMBDA e : e.ev # "swap")

RECURSIVE CircuitMatrix(_)
CircuitMatrix(qc) ==
    IF qc = <<>> THEN IdentityMatrix
    ELSE MatMul(GateMatrix(qc[Len(qc)]), CircuitMatrix(SubSeq(qc, 1, Len(qc) - 1)))

SameUpToGlobalPhase(c1, c2) ==
    MatrixDD(CircuitMatrix(c1), 0, 0).p = MatrixDD(CircuitMatrix(c2), 0, 0).p

\* C1: the second task manager walks circuit 2: whatever it fetches, applies
\* or skips is the gate of qc2 at its cursor, and it is finished exactly when
\* its cursor is past the last gate of qc2.
C1_SecondTaskWalksCircuit2 ==
    /\ \A i \in 1..Len(log) :
          log[i].side = 2 =>
              /\ log[i].idx <= Len(qc2)
              /\ log[i].gate = qc2[log[i].idx]
    /\ finished(taskManager2) <=> taskManager2.it > Len(qc2)

\* C2: for circuits that differ by more than a global phase the alternating
\* check returns NotEquivalent (never Equivalent or EquivalentUpToGlobalPhase).
C2_DifferentCircuitsNotEquivalent ==
    (ReturnedVerdict /\ ~SameUpToGlobalPhase(qc1, qc2))
        => equivalence = "NotEquivalent"

C4_BothFinishedAfterExecute ==
    pc = "finish" => (finished(taskManager1) /\ finished(taskManager2))

\* C4 (amended): when execute() returns without cancellation at least one of
\* the two task managers is finished; the other may still have gates left.
C4_OneFinishedAfterExecute ==
    pc = "finish" => (finished(taskManager1) \/ finished(taskManager2))

C4_Witness ==
    /\ pc = "finish"
    /\ finished(taskManager1)
    /\ ~finished(taskManager2)
    /\ ncalls > 0

\* C5: when execute() has ended under Lookahead no operation is left cached
\* and the scheme's incRefs on cached operations equal its decRefs on them.
C5_NoCachedOpAfterExecute ==
    (pc = "finish" /\ Scheme = "Lookahead") =>
        /\ ~lookahead.cached1
        /\ ~lookahead.cached2
        /\ counts["Op"].inc = counts["Op"].dec

\* ---- equals() ----

EqTrace == eq.configuration.functionality.traceThreshold
EqFidelity == eq.configuration.simulation.fidelityThreshold
EqIP == innerProduct(eq.e, eq.f, eq.noise)
EqProduct == multiply(eq.e, conjugateTranspose(eq.f))

\* <e,f> is within the threshold of 1
RealPartCloseToOne == Abs(EqIP.r - IPUnit) < EqFidelity

\* |<e,f>|^2 is within the threshold of 1
FidelityCloseToOne ==
    Abs(EqIP.r * EqIP.r + EqIP.i * EqIP.i - IPUnit * IPUnit) < EqFidelity * IPUnit

\* the top nodes differ, yet the operands pass the numerical closeness test
NearMiss ==
    /\ eq.called
    /\ eq.e.p # eq.f.p
    /\ IF eq.DDType = "MatrixDD"
       THEN isCloseToIdentity(EqProduct, EqTrace)
       ELSE RealPartCloseToOne \/ FidelityCloseToOne

\* C6 (as claimed): a numerical near-miss is reported as
\* EquivalentUpToGlobalPhase or EquivalentUpToPhase, never as Equivalent.
C6_NearMissNeverEquivalent ==
    NearMiss =>
        eq.out.verdict \in {"EquivalentUpToGlobalPhase", "EquivalentUpToPhase"}

\* C6 (amended): a numerical near-miss is never reported as NotEquivalent: it
\* is Equivalent when the top weights are approximately equal (matrices) or
\* the real part of <e,f> is within the threshold of 1 (vectors), and
\* otherwise EquivalentUpToGlobalPhase (matrices) or EquivalentUpToPhase
\* (vectors).
C6_NearMissVerdict ==
    NearMiss =>
        eq.out.verdict =
            IF eq.DDType = "MatrixDD"
            THEN IF approximatelyEquals(eq.e.w, eq.f.w)
                 THEN "Equivalent" ELSE "EquivalentUpToGlobalPhase"
            ELSE IF RealPartCloseToOne
                 THEN "Equivalent" ELSE "EquivalentUpToPhase"

C6_Witness ==
    /\ NearMiss
    /\ eq.DDType = "MatrixDD"
    /\ ~ident(eq.e.p)
    /\ ~ident(eq.f.p)
    /\ eq.out.verdict = "Equivalent"

\* C7: with equal node pointers the verdict is decided by the top weights
\* alone, with no package call: Equivalent if they are approximately equal,
\* EquivalentUpToGlobalPhase otherwise; so equals(M, M) is Equivalent and
\* equals(M, i^k M) is EquivalentUpToGlobalPhase for k # 0.
C7_FastPath ==
    eq.called =>
        /\ eq.e.p = eq.f.p =>
              /\ eq.out.calls = <<>>
              /\ eq.out.tested = <<>>
              /\ eq.out.verdict = IF approximatelyEquals(eq.e.w, eq.f.w)
                                  THEN "Equivalent"
                                  ELSE "EquivalentUpToGlobalPhase"
        /\ \A k \in 0..3 :
              (/\ eq.DDType = "MatrixDD"
               /\ eq.e.p.j = eq.f.p.j
               /\ MatrixOf(eq.f) = MatScale(MatrixOf(eq.e), k)) =>
                  eq.out.verdict = IF k = 0 THEN "Equivalent"
                                   ELSE "EquivalentUpToGlobalPhase"

C7_Witness ==
    /\ eq.called
    /\ eq.DDType = "MatrixDD"
    /\ eq.e.p = eq.f.p
    /\ ~ident(eq.e.p)
    /\ eq.e.w.k # eq.f.w.k
    /\ eq.out.verdict = "EquivalentUpToGlobalPhase"

\* C8: matrices with different top nodes: the closeness test decides on
\* e * conjugateTranspose(f); when one operand is the identity nothing is
\* multiplied and the other operand is tested, with the same result.  Close
\* and equal weights: Equivalent; close and different weights:
\* EquivalentUpToGlobalPhase; not close: NotEquivalent; nothing else.
C8_MatrixFlavour ==
    (eq.called /\ eq.DDType = "MatrixDD" /\ eq.e.p # eq.f.p) =>
        LET viaIdent == ident(eq.e.p) \/ ident(eq.f.p)
            arg == IF ident(eq.e.p) THEN eq.f
                   ELSE IF ident(eq.f.p) THEN eq.e
                   ELSE EqProduct
        IN  /\ eq.out.tested = <<arg>>
            /\ eq.out.calls = IF viaIdent THEN <<"isCloseToIdentity">>
                              ELSE <<"conjugateTranspose", "multiply",
                                     "isCloseToIdentity">>
            /\ eq.out.verdict =
                  IF isCloseToIdentity(EqProduct, EqTrace)
                  THEN IF approximatelyEquals(eq.e.w, eq.f.w)
                       THEN "Equivalent" ELSE "EquivalentUpToGlobalPhase"
                  ELSE "NotEquivalent"

C8_Witness ==
    /\ eq.called
    /\ eq.DDType = "MatrixDD"
    /\ eq.e.p # eq.f.p
    /\ ~ident(eq.e.p)
    /\ ~ident(eq.f.p)
    /\ eq.out.calls = <<"conjugateTranspose", "multiply", "isCloseToIdentity">>
    /\ eq.out.verdict = "EquivalentUpToGlobalPhase"

\* C9: vectors with different top nodes, inner product r + i*im, threshold t:
\* Equivalent if |r - 1| < t; otherwise EquivalentUpToPhase if
\* |r^2 + im^2 - 1| < t; otherwise NotEquivalent.
C9_VectorFlavour ==
    (eq.called /\ eq.DDType = "VectorDD" /\ eq.e.p # eq.f.p) =>
        /\ eq.out.calls = <<"innerProduct">>
        /\ eq.out.verdict =
              IF RealPartCloseToOne THEN "Equivalent"
              ELSE IF FidelityCloseToOne THEN "EquivalentUpToPhase"
              ELSE "NotEquivalent"

\* both tests pass and the first one wins
C9_Witness ==
    /\ eq.called
    /\ eq.DDType = "VectorDD"
    /\ eq.e.p # eq.f.p
    /\ RealPartCloseToOne
    /\ FidelityCloseToOne
    /\ EqIP.i # 0
    /\ eq.out.verdict = "Equivalent"

\* C10: a Lookahead call consumes exactly one gate: it multiplies the one
\* chosen cached operation into G, moves only the chosen side's cursor, by
\* one, and the driver's advance(0) / advance(0) applies nothing more; no
\* gate is ever applied twice.
C10_LookaheadConsumesOneGate ==
    [][(pc = "execute" /\ Scheme = "Lookahead" /\ ncalls' = ncalls + 1) =>
         LET pre == applySwapOperations(applySwapOperations(Ctx, 1), 2)
             k == lookahead'.chose
             after == <<taskManager1', taskManager2'>>
             applied == Applies(log')
         IN  /\ k \in {1, 2}
             /\ Len(applied) = Len(Applies(log)) + 1
             /\ applied[Len(applied)] =
                    Event("apply", k, pre.tm[k].it, pre.tm[k].qc[pre.tm[k].it])
             /\ functionality' = IF k = 1
                                 THEN multiply(getDD(pre.tm[1]), functionality)
                                 ELSE multiply(functionality, getInverseDD(pre.tm[2]))
             /\ after[k].it = pre.tm[k].it + 1
             /\ after[3 - k].it = pre.tm[3 - k].it
             /\ \A a, b \in 1..Len(applied) :
                    (applied[a].side = applied[b].side
                        /\ applied[a].idx = applied[b].idx) => a = b
      ]_vars

C10_Witness ==
    /\ Scheme = "Lookahead"
    /\ ncalls >= 2
    /\ \E a, b \in 1..Len(log) :
          /\ log[a].ev = "apply" /\ log[a].side = 1
          /\ log[b].ev = "apply" /\ log[b].side = 2

\* ---- the Lookahead scheme, continued ----

\* a step of execute() in which the Lookahead scheme is called
LookaheadCall == pc = "execute" /\ Scheme = "Lookahead" /\ ncalls' = ncalls + 1

BagOf(e) == SetToBag({e.p})

\* C11: with s1 = size(op1 * G) and s2 = size(G * op2) a Lookahead call takes
\* side 1 iff s1 <= s2 (a tie goes to side 1) and side 2 iff s1 > s2; the new
\* G is the product of the side taken, and only that side's cached flag is
\* cleared and only its operation decRef'd.
C11_GreedyChoice ==
    [][LookaheadCall =>
         LET saved == functionality
             op1 == lookahead'.op1
             op2 == lookahead'.op2
             s1 == size(multiply(op1, saved))
             s2 == size(multiply(saved, op2))
             k == lookahead'.chose
             fetched == (IF lookahead.cached1 THEN EmptyBag ELSE BagOf(op1))
                            (+) (IF lookahead.cached2 THEN EmptyBag ELSE BagOf(op2))
             taken == IF k = 1 THEN op1 ELSE op2
         IN  /\ k = 1 <=> s1 <= s2
             /\ k = 2 <=> s1 > s2
             /\ functionality' = IF k = 1 THEN multiply(op1, saved)
                                 ELSE multiply(saved, op2)
             /\ lookahead'.cached1 = (k # 1)
             /\ lookahead'.cached2 = (k # 2)
             /\ counts'["Op"].dec = counts["Op"].dec + 1
             /\ refs' = (((refs (+) fetched) (-) BagOf(taken))
                            (+) BagOf(functionality')) (-) BagOf(saved)
             /\ ~underflow'
      ]_vars

\* the first call was a tie and took side 1, the latest call took side 2
C11_Witness ==
    /\ Scheme = "Lookahead"
    /\ pc = "execute"
    /\ ncalls >= 2
    /\ Applies(log)[1].side = 1
    /\ lookahead.chose = 2
    /\ lookahead.cached1
    /\ ~lookahead.cached2

\* ---- construction ----

C13_UnwiredCallChangesNothing ==
    [][(schemeInstalled.kind = "Lookahead" /\ ncalls = 0 /\ pc' = "aborted") =>
         LET pre == applySwapOperations(applySwapOperations(Ctx, 1), 2)
         IN  /\ error' = "UninitializedScheme"
             /\ GateEvents(log') = GateEvents(log)
             /\ lookahead' = lookahead
             /\ refs' = refs
             /\ counts' = counts
             /\ taskManager1' = pre.tm[1]
             /\ taskManager2' = pre.tm[2]
             /\ functionality' = functionality
      ]_vars

\* C13, second half: whenever run() of a DDAlternatingChecker constructed
\* with the Lookahead scheme is under way, both pointers of the scheme are set.
AlternatingLookaheadIsWired ==
    (checker = "DDAlternatingChecker" /\ schemeInstalled.kind = "Lookahead"
        /\ pc \in {"idle", "execute", "called", "aborted"}) =>
        (lookahead.internalState /\ lookahead.package /\ pc # "aborted")

\* ---- the simulation checker and run() ----

\* C14: nqubits is max(qc1.getNqubits(), qc2.getNqubits()) in every state of
\* a checker: no operation after construction changes it.
C14_NqubitsIsWiderCircuit == nqubits = ConstructedNqubits(qubits)

\* run() is between initialize() and the end of checkEquivalence()
RunUnderWay == pc \in {"execute", "finish", "postprocess", "check"}

\* C15: in every run() the checker issues one incRef per task (initializeTask)
\* and one decRef per task (checkEquivalence, after the verdict); no decRef
\* meets a state without a reference, and between runs, however many there
\* were and whatever initial states were set, the core holds no reference.
C15_SimulationReuse ==
    /\ counts["State"].inc = 2 * (runs + (IF RunUnderWay \/ pc = "record" THEN 1 ELSE 0))
    /\ counts["State"].dec = 2 * (runs + (IF pc = "record" THEN 1 ELSE 0))
    /\ ~underflow
    /\ RunUnderWay =>
          refs = BagOf(taskManager1.state) (+) BagOf(taskManager2.state)
    /\ ~RunUnderWay =>
          /\ refs = EmptyBag
          /\ counts["TM"].inc = counts["TM"].dec

\* two runs are complete, the second one from another initial state
C15_Witness ==
    /\ pc = "returned"
    /\ runs = 2
    /\ ncalls > 0
    /\ initialState # VectorDD(makeZeroState, 0, 0)
    /\ counts["State"] = [inc |-> 4, dec |-> 4]

Phases == <<"idle", "execute", "finish", "postprocess", "check", "record", "returned">>

\* C16: run() goes through initialize, execute, finish, postprocess and
\* checkEquivalence once each and in this order; the verdict is what
\* checkEquivalence computes from the two running states; maxActiveNodes and
\* runtime are stored only after that, and run() returns this verdict.
C16_RunPhaseOrder ==
    [][/\ pc' # pc =>
            \/ \E i \in 1..6 : pc = Phases[i] /\ pc' = Phases[i + 1]
            \/ pc = "returned" /\ pc' = "idle"
       /\ (pc = "idle" /\ pc' = "execute") =>
            /\ taskManager1'.state = initialState
            /\ taskManager2'.state = initialState
       /\ (pc = "execute" /\ pc' = "finish") => UNCHANGED coreVars
       /\ equivalence' # equivalence => pc = "check"
       /\ pc = "check" =>
            equivalence' = equals("VectorDD", taskManager1.state, taskManager2.state,
                                  configuration, NoNoise).verdict
       /\ recorded' # recorded =>
            \/ pc = "record" /\ recorded'
            \/ pc = "returned" /\ pc' = "idle"
       /\ pc = "record" =>
            (pc' = "returned" /\ recorded' /\ equivalence' = equivalence)
      ]_vars

C16_Witness ==
    /\ pc = "returned"
    /\ recorded
    /\ runs = 1
    /\ Len(Applies(log)) = 2
    /\ equivalence = "Equivalent"

\* ---- the alternating check under Lookahead ----

\* C17: the alternating check of a circuit against itself returns Equivalent.
C17_SameCircuitEquivalent ==
    (ReturnedVerdict /\ qc1 = qc2) => equivalence = "Equivalent"

\* g[n] * ... * g[1]
RECURSIVE LeftProduct(_, _)
LeftProduct(qc, n) ==
    IF n = 0 THEN IdentityMatrix
    ELSE MatMul(GateMatrix(qc[n]), LeftProduct(qc, n - 1))

\* inv(g[1]) * ... * inv(g[n])
RECURSIVE RightInverses(_, _)
RightInverses(qc, n) ==
    IF n = 0 THEN IdentityMatrix
    ELSE MatMul(RightInverses(qc, n - 1), MatConjT(GateMatrix(qc[n])))

\* C18: between Lookahead calls, with c1 and c2 the numbers of gates the two
\* cursors have passed, G = (g1[c1] * ... * g1[1]) * I * (inv(g2[1]) * ... *
\* inv(g2[c2])) for the gates g1 of circuit 1 and g2 of circuit 2.
C18_FunctionalityIsProduct ==
    (Scheme = "Lookahead" /\ pc = "execute") =>
        LET c1 == taskManager1.it - 1
            c2 == taskManager2.it - 1
        IN  /\ c1 <= Len(qc1)
            /\ c2 <= Len(qc2)
            /\ MatrixOf(functionality) =
                   MatMul(LeftProduct(qc1, c1), RightInverses(qc2, c2))

CachedOps(la) ==
    (IF la.cached1 THEN BagOf(la.op1) ELSE EmptyBag)
        (+) (IF la.cached2 THEN BagOf(la.op2) ELSE EmptyBag)

\* C19: a Lookahead call incRefs the value it assigns to G once and decRefs
\* the value it replaces once; when it returns (its garbageCollect() is the
\* last thing to touch the package) G holds exactly one reference of its own
\* and a superseded G none: the references held are that one and those of
\* the operations still cached.
C19_FunctionalityReferences ==
    [][LookaheadCall =>
         /\ counts'["G"].inc = counts["G"].inc + 1
         /\ counts'["G"].dec = counts["G"].dec + 1
         /\ counts'["G"].inc = counts'["G"].dec + 1
         /\ refs' = BagOf(functionality') (+) CachedOps(lookahead')
         /\ ~underflow'
      ]_vars

\* G has been replaced twice and its node differs from the one before
C19_Witness ==
    /\ Scheme = "Lookahead"
    /\ pc = "execute"
    /\ counts["G"] = [inc |-> 3, dec |-> 2]
    /\ ~ident(functionality.p)
    /\ CopiesIn(functionality.p, refs (-) CachedOps(lookahead)) = 1

\* C20: after every Lookahead call (i) at most one operation is cached,
\* (ii) a cached operation is the DD (side 1) or inverse DD (side 2) of the
\* gate under that task's cursor, and this gate has not been applied, and
\* (iii) the references the scheme holds on cached operations are as many as
\* there are cached flags set.
C20_CacheInvariants ==
    (Scheme = "Lookahead" /\ pc = "execute" /\ ncalls > 0) =>
        LET held == counts["Op"].inc - counts["Op"].dec
            flags == (IF lookahead.cached1 THEN 1 ELSE 0)
                         + (IF lookahead.cached2 THEN 1 ELSE 0)
            NotApplied(side, idx) ==
                \A i \in 1..Len(log) :
                    ~(log[i].ev = "apply" /\ log[i].side = side /\ log[i].idx = idx)
        IN  /\ ~(lookahead.cached1 /\ lookahead.cached2)
            /\ lookahead.cached1 =>
                  /\ ~finished(taskManager1)
                  /\ lookahead.op1 = getDD(taskManager1)
                  /\ NotApplied(1, taskManager1.it)
            /\ lookahead.cached2 =>
                  /\ ~finished(taskManager2)
                  /\ lookahead.op2 = getInverseDD(taskManager2)
                  /\ NotApplied(2, taskManager2.it)
            /\ held = flags

\* the second operation stayed cached over two calls
C20_Witness ==
    /\ Scheme = "Lookahead"
    /\ pc = "execute"
    /\ ncalls = 2
    /\ lookahead.cached2
    /\ ~lookahead.cached1
    /\ lookahead.at2 = 1
    /\ counts["Op"] = [inc |-> 3, dec |-> 2]

\* ---- execute() ----

\* a step that is one pass through the loop of execute()
LoopIteration == pc = "execute" /\ pc' = "execute" /\ done' = done

\* C21: in every pass through the loop of execute(), under OneToOne and under
\* Lookahead, the scheme is called, and a gate's DD or inverse DD is asked
\* for, only while after SWAP skipping both cursors are on an existing
\* non-SWAP gate; no task is advanced past its end; and cursor1 + cursor2
\* grows strictly while staying within the two circuits, so the loop ends.
C21_InBoundsAndProgress ==
    [][LoopIteration =>
         LET pre == applySwapOperations(applySwapOperations(Ctx, 1), 2)
             after == <<taskManager1', taskManager2'>>
             new == SubSeq(log', Len(log) + 1, Len(log'))
             OnGate(t) == ~finished(t) /\ t.qc[t.it] # "SWAP"
         IN  /\ ncalls' # ncalls => (OnGate(pre.tm[1]) /\ OnGate(pre.tm[2]))
             /\ \A i \in 1..Len(new) :
                    new[i].ev # "swap" =>
                        /\ ncalls' = ncalls + 1
                        /\ new[i].idx = pre.tm[new[i].side].it
                        /\ new[i].gate = pre.tm[new[i].side].qc[new[i].idx]
             /\ ~oob'
             /\ after[1].it + after[2].it > taskManager1.it + taskManager2.it
             /\ \A k \in 1..2 : after[k].it <= Len(after[k].qc) + 1
      ]_vars

\* a pass that ended after SWAP skipping, without a call of the scheme
C21_Witness ==
    /\ pc = "execute"
    /\ ncalls = 1
    /\ log[Len(log)].ev = "swap"
    /\ finished(taskManager1)
    /\ ~oob

====
